---- MODULE Spec2Model ----
(***************************************************************************)
(* Model of src/sandbox/router/location.ts: the location object that a     *)
(* micro application sees (createMicroLocation) and its synchroniser       *)
(* (updateLocation).                                                       *)
(*                                                                         *)
(* Strings are sequences of one-character tokens; the scheme "http:" is a  *)
(* single token.  Every call that the code makes on the raw window         *)
(* (history.pushState / replaceState, location.reload, location.assign /   *)
(* replace / href=, dispatchPurePopStateEvent) is appended, in program     *)
(* order, to the effect trace of the operation that made it.               *)
(***************************************************************************)
EXTENDS Naturals, Sequences, FiniteSets

VARIABLES
  microLocation,  \* app name -> the app's location object (with its shadowLocation)
  history,        \* rawWindow.history, as a script can see it: its length and
                  \* the address of its current entry
  attach2Hash,    \* routing mode of the host, as reported by setMicroPathToURL
  lastOp,         \* the operation that ran last: [op, app, value]
  effects         \* the raw-window calls that operation made, in order

vars == <<microLocation, history, attach2Hash, lastOp, effects>>

\* ------------------------------------------------------------------ bounds

\* Longest history stack the model follows (the first entry is the host page).
MaxHistory == 3

\* ----------------------------------------------------------------- strings

Scheme == "http:"

\* The index of the first element of s that is in D, Len(s) + 1 when none is.
FirstIn(s, D) ==
  LET I == {i \in 1..Len(s) : s[i] \in D}
  IN  IF I = {} THEN Len(s) + 1 ELSE CHOOSE i \in I : \A j \in I : i <= j

\* The index of the first element of s that is not c, Len(s) + 1 when none is.
FirstNot(s, c) ==
  LET I == {i \in 1..Len(s) : s[i] # c}
  IN  IF I = {} THEN Len(s) + 1 ELSE CHOOSE i \in I : \A j \in I : i <= j

UpTo(s, D) == SubSeq(s, 1, FirstIn(s, D) - 1)
From(s, D) == SubSeq(s, FirstIn(s, D), Len(s))

\* Variant of ReplaceLeading: s.replace(/^c/, c), which leaves s as it is.
ReplaceLeading_once(s, c) == s

\* s.replace(/^c+/, c): a leading run of c becomes one c.
ReplaceLeading(s, c) ==
  IF s # <<>> /\ s[1] = c THEN <<c>> \o SubSeq(s, FirstNot(s, c), Len(s)) ELSE s

\* The index of the last "/" of a path (0 when it has none).
LastSlash(p) ==
  LET I == {i \in 1..Len(p) : p[i] = "/"}
  IN  IF I = {} THEN 0 ELSE CHOOSE i \in I : \A j \in I : j <= i

\* --------------------------------------------------------------------- URL

\* The URL made of a host and of what follows it (path, query, fragment).
\* query and fragment keep their delimiter; the search and hash getters of a
\* URL are empty when the query or fragment is empty ("?" or "#" alone).
MakeURL(host, path, query, fragment) ==
  LET pathname == IF path = <<>> THEN <<"/">> ELSE path
  IN  [ origin   |-> <<Scheme, "/", "/">> \o host,
        protocol |-> <<Scheme>>,
        host     |-> host,
        hostname |-> host,
        port     |-> <<>>,
        password |-> <<>>,
        pathname |-> pathname,
        search   |-> IF Len(query) <= 1 THEN <<>> ELSE query,
        hash     |-> IF Len(fragment) <= 1 THEN <<>> ELSE fragment,
        href     |-> <<Scheme, "/", "/">> \o host \o pathname \o query \o fragment ]

\* The query and the fragment of what remains after the path.
QueryOf(rest) == IF rest # <<>> /\ rest[1] = "?" THEN UpTo(rest, {"#"}) ELSE <<>>
FragmentOf(rest) == From(rest, {"#"})

\* s is what follows the scheme of a special URL: the slashes before the host
\* are skipped, the host runs to the next "/", "?" or "#".
ParseAuthority(s) ==
  LET a    == SubSeq(s, FirstNot(s, "/"), Len(s))
      host == UpTo(a, {"/", "?", "#"})
      r    == From(a, {"/", "?", "#"})
      rest == From(r, {"?", "#"})
  IN  MakeURL(host, UpTo(r, {"?", "#"}), QueryOf(rest), FragmentOf(rest))

\* new URL(value): value is absolute.
ParseAbsolute(value) == ParseAuthority(Tail(value))

\* The raw query and fragment of a parsed URL, read back from its href.
RawQuery(u) == QueryOf(From(SubSeq(u.href, Len(u.origin) + 1, Len(u.href)), {"?", "#"}))

\* new URL(value, base)
createURL(value, base) ==
  LET b    == ParseAbsolute(base)
      rest == From(value, {"?", "#"})
      path == UpTo(value, {"?", "#"})
  IN  IF value # <<>> /\ value[1] = Scheme THEN ParseAbsolute(value)
      ELSE IF Len(value) >= 2 /\ value[1] = "/" /\ value[2] = "/" THEN ParseAuthority(value)
      ELSE IF value # <<>> /\ value[1] = "/"
        THEN MakeURL(b.host, path, QueryOf(rest), FragmentOf(rest))
      ELSE IF value # <<>> /\ value[1] = "?"
        THEN MakeURL(b.host, b.pathname, QueryOf(rest), FragmentOf(rest))
      ELSE IF value # <<>> /\ value[1] = "#"
        THEN MakeURL(b.host, b.pathname, RawQuery(b), FragmentOf(rest))
      ELSE IF value = <<>>
        THEN MakeURL(b.host, b.pathname, RawQuery(b), <<>>)
      ELSE MakeURL(b.host, SubSeq(b.pathname, 1, LastSlash(b.pathname)) \o path,
                   QueryOf(rest), FragmentOf(rest))

\* ------------------------------------------------------------- the program

Apps == {"app1", "app2"}

\* The url each app is created with (createMicroLocation's second argument).
url(appName) ==
  IF appName = "app1" THEN <<Scheme, "/", "/", "h", "/", "x">>
                      ELSE <<Scheme, "/", "/", "h", "/", "y">>

\* One call on the raw window; arg is <<>> for a call that takes none.
Call(kind, arg) == [kind |-> kind, arg |-> arg]

\* What a function returns: a string, or undefined.
Value(v) == [defined |-> TRUE, value |-> v]
Undefined == [defined |-> FALSE, value |-> <<>>]
\* if (formattedValue): undefined and the empty string are falsy.
Truthy(r) == r.defined /\ r.value # <<>>

\* The path codec.  fullPath is the address of the host page with the app's
\* path (pathname + search + hash) filed under the app's name, in the host's
\* query or, when the host routes by hash, in the host's hash.
setMicroPathToURL(appName, targetLocation) ==
  LET microPath == targetLocation.pathname \o targetLocation.search \o targetLocation.hash
  IN  [ fullPath    |-> (IF attach2Hash THEN <<"/", "#", "/">> ELSE <<"/">>)
                          \o <<"?", appName, "=">> \o microPath,
        attach2Hash |-> attach2Hash ]

dispatchPurePopStateEvent == Call("dispatchPurePopStateEvent", <<>>)

\* The location object right after createMicroLocation(appName, url).
createMicroLocation(appName) ==
  LET u == ParseAbsolute(url(appName))
  IN  [ origin   |-> u.origin,
        protocol |-> u.protocol,
        host     |-> u.host,
        hostname |-> u.hostname,
        port     |-> u.port,
        password |-> u.password,
        shadowLocation |-> [ href     |-> u.href,
                             pathname |-> u.pathname,
                             search   |-> u.search,
                             hash     |-> u.hash ] ]

shadowLocation(appName) == microLocation[appName].shadowLocation

\* Variant of hashOnlyCalls: the notify-or-reload choice reads the shadow hash.
hashOnlyCalls_shadowHash(methodName, fullPath, targetLocation, shadow) ==
  (IF targetLocation.hash # shadow.hash THEN <<Call(methodName, fullPath)>> ELSE <<>>)
    \o (IF shadow.hash # <<>>
          THEN <<dispatchPurePopStateEvent>>
          ELSE <<Call("reload", <<>>)>>)

\* Variant of hashOnlyCalls: the entry is written also when the hash is unchanged.
hashOnlyCalls_always(methodName, fullPath, targetLocation, shadow) ==
  <<Call(methodName, fullPath)>>
    \o (IF targetLocation.hash # <<>>
          THEN <<dispatchPurePopStateEvent>>
          ELSE <<Call("reload", <<>>)>>)

\* Variant of hashOnlyCalls: the history entry is written after the notify or reload.
hashOnlyCalls_late(methodName, fullPath, targetLocation, shadow) ==
  (IF targetLocation.hash # <<>>
     THEN <<dispatchPurePopStateEvent>>
     ELSE <<Call("reload", <<>>)>>)
    \o (IF targetLocation.hash # shadow.hash THEN <<Call(methodName, fullPath)>> ELSE <<>>)

\* commonHandle, pathname and search unchanged: the history entry is written
\* when the hash differs, then the app is notified (a hash is there) or the
\* page reloaded (none is).
hashOnlyCalls(methodName, fullPath, targetLocation, shadow) ==
  (IF targetLocation.hash # shadow.hash THEN <<Call(methodName, fullPath)>> ELSE <<>>)
    \o (IF targetLocation.hash # <<>>
          THEN <<dispatchPurePopStateEvent>>
          ELSE <<Call("reload", <<>>)>>)

\* Variant of attach2HashCalls: the entry is written and the page is not reloaded.
attach2HashCalls_noReload(methodName, fullPath) ==
  << Call(methodName, fullPath) >>

\* Variant of attach2HashCalls: the app is notified as well, after the reload.
attach2HashCalls_notify(methodName, fullPath) ==
  << Call(methodName, fullPath), Call("reload", <<>>), dispatchPurePopStateEvent >>

\* commonHandle, the host routes by hash: the entry is written and the page reloaded.
attach2HashCalls(methodName, fullPath) ==
  << Call(methodName, fullPath), Call("reload", <<>>) >>

\* Variant of formattedValue: the value is returned as it came.
formattedValue_raw(value, setMicroPathResult) == value

\* commonHandle, otherwise: value = setMicroPathResult.fullPath
formattedValue(value, setMicroPathResult) == setMicroPathResult.fullPath

\* Variant of sameOrigin: only the scheme is compared.
sameOrigin_scheme(targetLocation, appName) ==
  targetLocation.protocol = microLocation[appName].protocol

\* commonHandle: targetLocation.origin === microLocation.origin
sameOrigin(targetLocation, appName) ==
  targetLocation.origin = microLocation[appName].origin

\* commonHandle: the calls it makes and the value it returns.
commonHandle(appName, value, methodName) ==
  LET targetLocation     == createURL(value, url(appName))
      setMicroPathResult == setMicroPathToURL(appName, targetLocation)
      shadow             == shadowLocation(appName)
  IN  IF sameOrigin(targetLocation, appName)
      THEN IF /\ targetLocation.pathname = shadow.pathname
              /\ targetLocation.search = shadow.search
           THEN [ calls |-> hashOnlyCalls(methodName, setMicroPathResult.fullPath,
                                          targetLocation, shadow),
                  ret   |-> Undefined ]
           ELSE IF setMicroPathResult.attach2Hash
           THEN [ calls |-> attach2HashCalls(methodName, setMicroPathResult.fullPath),
                  ret   |-> Undefined ]
           ELSE [ calls |-> <<>>,
                  ret   |-> Value(formattedValue(value, setMicroPathResult)) ]
      ELSE [ calls |-> <<>>, ret |-> Value(value) ]

\* The function createLocationMethod(locationMethodName) returns, applied to value.
createLocationMethod(locationMethodName, appName, value) ==
  LET r == commonHandle(appName, value,
                        IF locationMethodName = "assign" THEN "pushState" ELSE "replaceState")
  IN  r.calls \o (IF Truthy(r.ret) THEN <<Call(locationMethodName, r.ret.value)>> ELSE <<>>)

\* set href(value)
hrefSetter(appName, value) ==
  LET r == commonHandle(appName, value, "pushState")
  IN  r.calls \o (IF Truthy(r.ret) THEN <<Call("href", r.ret.value)>> ELSE <<>>)

\* Variant of pathnameSetter: the notify-only case also asks for an unchanged hash.
pathnameSetter_hash(appName, value) ==
  LET shadow         == shadowLocation(appName)
      targetPath     == ReplaceLeading(<<"/">> \o value, "/") \o shadow.search \o shadow.hash
      targetLocation == createURL(targetPath, url(appName))
  IN  IF /\ targetLocation.pathname = shadow.pathname
         /\ shadow.hash # <<>> /\ targetLocation.hash = shadow.hash
      THEN <<dispatchPurePopStateEvent>>
      ELSE << Call(IF targetLocation.pathname = shadow.pathname
                     THEN "replaceState" ELSE "pushState",
                   setMicroPathToURL(appName, targetLocation).fullPath),
              Call("reload", <<>>) >>

\* set pathname(value)
pathnameSetter(appName, value) ==
  LET shadow         == shadowLocation(appName)
      targetPath     == ReplaceLeading(<<"/">> \o value, "/") \o shadow.search \o shadow.hash
      targetLocation == createURL(targetPath, url(appName))
  IN  IF targetLocation.pathname = shadow.pathname /\ shadow.hash # <<>>
      THEN <<dispatchPurePopStateEvent>>
      ELSE << Call(IF targetLocation.pathname = shadow.pathname
                     THEN "replaceState" ELSE "pushState",
                   setMicroPathToURL(appName, targetLocation).fullPath),
              Call("reload", <<>>) >>

\* Variant of searchSetter: the history method is chosen the other way round.
searchSetter_swapped(appName, value) ==
  LET shadow         == shadowLocation(appName)
      targetPath     == shadow.pathname \o ReplaceLeading(<<"?">> \o value, "?") \o shadow.hash
      targetLocation == createURL(targetPath, url(appName))
  IN  IF targetLocation.search = shadow.search /\ shadow.hash # <<>>
      THEN <<dispatchPurePopStateEvent>>
      ELSE << Call(IF targetLocation.search = shadow.search
                     THEN "pushState" ELSE "replaceState",
                   setMicroPathToURL(appName, targetLocation).fullPath),
              Call("reload", <<>>) >>

\* set search(value)
searchSetter(appName, value) ==
  LET shadow         == shadowLocation(appName)
      targetPath     == shadow.pathname \o ReplaceLeading(<<"?">> \o value, "?") \o shadow.hash
      targetLocation == createURL(targetPath, url(appName))
  IN  IF targetLocation.search = shadow.search /\ shadow.hash # <<>>
      THEN <<dispatchPurePopStateEvent>>
      ELSE << Call(IF targetLocation.search = shadow.search
                     THEN "replaceState" ELSE "pushState",
                   setMicroPathToURL(appName, targetLocation).fullPath),
              Call("reload", <<>>) >>

\* Variant of hashSetter: a cleared hash reloads the page, as in commonHandle.
hashSetter_reload(appName, value) ==
  LET shadow         == shadowLocation(appName)
      targetPath     == shadow.pathname \o shadow.search \o ReplaceLeading(<<"#">> \o value, "#")
      targetLocation == createURL(targetPath, url(appName))
  IN  IF targetLocation.hash # shadow.hash
      THEN << Call("pushState", setMicroPathToURL(appName, targetLocation).fullPath),
              IF targetLocation.hash # <<>> THEN dispatchPurePopStateEvent
                                            ELSE Call("reload", <<>>) >>
      ELSE <<>>

\* set hash(value)
hashSetter(appName, value) ==
  LET shadow         == shadowLocation(appName)
      targetPath     == shadow.pathname \o shadow.search \o ReplaceLeading(<<"#">> \o value, "#")
      targetLocation == createURL(targetPath, url(appName))
  IN  IF targetLocation.hash # shadow.hash
      THEN << Call("pushState", setMicroPathToURL(appName, targetLocation).fullPath),
              dispatchPurePopStateEvent >>
      ELSE <<>>

\* Variant of updateLocation: 'hash' is missing from shadowLocationKeys.
updateLocation_noHash(path, base, loc) ==
  LET newLocation == createURL(path, base)
  IN  [ origin   |-> newLocation.origin,
        protocol |-> newLocation.protocol,
        host     |-> newLocation.host,
        hostname |-> newLocation.hostname,
        port     |-> newLocation.port,
        password |-> newLocation.password,
        shadowLocation |-> [ href     |-> newLocation.href,
                             pathname |-> newLocation.pathname,
                             search   |-> newLocation.search,
                             hash     |-> loc.shadowLocation.hash ] ]

\* The location object after updateLocation(path, base, microLocation).  The
\* four shadow keys are stored in shadowLocation; the other five are assigned
\* to the URL object itself, whose origin is read from its protocol, host and
\* port.
updateLocation(path, base, loc) ==
  LET newLocation == createURL(path, base)
  IN  [ origin   |-> newLocation.origin,
        protocol |-> newLocation.protocol,
        host     |-> newLocation.host,
        hostname |-> newLocation.hostname,
        port     |-> newLocation.port,
        password |-> newLocation.password,
        shadowLocation |-> [ href     |-> newLocation.href,
                             pathname |-> newLocation.pathname,
                             search   |-> newLocation.search,
                             hash     |-> newLocation.hash ] ]

\* const assign = createLocationMethod('assign'), and replace likewise.
assign(appName, value) == createLocationMethod("assign", appName, value)
replace(appName, value) == createLocationMethod("replace", appName, value)

\* const reload = (forcedReload) => rawLocation.reload(forcedReload)
reload(forcedReload) == <<Call("reload", forcedReload)>>

\* The four getters read shadowLocation.
hrefGetter(appName) == shadowLocation(appName).href
pathnameGetter(appName) == shadowLocation(appName).pathname
searchGetter(appName) == shadowLocation(appName).search
hashGetter(appName) == shadowLocation(appName).hash

\* rawWindow.history after the calls of one operation: pushState adds an
\* entry and makes it the current one, replaceState overwrites the current
\* one; no other call of this file touches it.
RECURSIVE ApplyCalls(_, _)
ApplyCalls(h, calls) ==
  IF calls = <<>> THEN h
  ELSE LET c  == Head(calls)
           h1 == IF c.kind = "pushState"
                   THEN [length |-> h.length + 1, current |-> c.arg]
                 ELSE IF c.kind = "replaceState"
                   THEN [length |-> h.length, current |-> c.arg]
                 ELSE h
       IN  ApplyCalls(h1, Tail(calls))

\* ------------------------------------------------------------------ inputs

\* What the apps pass to assign, replace and the href setter.
NavValues ==
  { <<"#", "a">>, <<"#", "b">>, <<"#">>, <<>>,
    <<"/", "x">>, <<"/", "x", "#", "a">>,
    <<"/", "x", "?", "q">>, <<"/", "x", "?", "q", "#", "a">>,
    <<"/", "z">>, <<"z", "#", "a">>,
    <<Scheme, "/", "/", "h", "/", "x", "#", "b">>,
    <<Scheme, "/", "/", "o", "/", "p">>, <<"/", "/", "o", "/", "p">> }

PathnameValues ==
  { <<>>, <<"/">>, <<"x">>, <<"/", "x">>, <<"/", "/", "x">>,
    <<"z">>, <<"/", "z">>, <<"/", "/", "/", "z">>,
    <<"x", "#", "b">>, <<"z", "?", "r">> }

SearchValues ==
  { <<>>, <<"?">>, <<"q">>, <<"?", "q">>, <<"?", "?", "q">>,
    <<"r">>, <<"?", "?", "?", "r">>, <<"q", "#", "b">> }

HashValues ==
  { <<>>, <<"#">>, <<"a">>, <<"#", "a">>, <<"#", "#", "a">>,
    <<"b">>, <<"#", "#", "#", "b">>, <<"a", "?", "q">> }

\* The paths updateLocation is called with: the app's own path (pathname,
\* search and hash) as decoded from the address of the host page.
UpdatePaths ==
  { <<"/", "x">>, <<"/", "x", "#", "a">>, <<"/", "x", "#">>,
    <<"/", "x", "?", "q">>, <<"/", "x", "?", "q", "#", "a">>,
    <<"/", "z", "#", "b">>, <<"/", "z", "?", "r">> }

ForcedReloadValues == { <<>>, <<"true">> }

\* The four properties whose getters read shadowLocation.
ShadowKeys == {"href", "pathname", "search", "hash"}

\* ----------------------------------------------------------------- actions

\* Variant of Perform: a write that hands an address to the real navigation
\* also stores that address in shadowLocation.
Perform_optimistic(op, appName, value, calls) ==
  /\ ApplyCalls(history, calls).length <= MaxHistory
  /\ effects' = calls
  /\ history' = ApplyCalls(history, calls)
  /\ lastOp' = [op |-> op, app |-> appName, value |-> value]
  /\ microLocation' =
       IF \E i \in DOMAIN calls : calls[i].kind \in {"assign", "replace", "href"}
         THEN [microLocation EXCEPT
                 ![appName] = updateLocation(value, url(appName), @)]
         ELSE microLocation
  /\ UNCHANGED attach2Hash

\* Variant of Perform: an operation that writes a history entry also stores
\* the address it wrote in shadowLocation.
Perform_commit(op, appName, value, calls) ==
  /\ ApplyCalls(history, calls).length <= MaxHistory
  /\ effects' = calls
  /\ history' = ApplyCalls(history, calls)
  /\ lastOp' = [op |-> op, app |-> appName, value |-> value]
  /\ microLocation' =
       IF \E i \in DOMAIN calls : calls[i].kind \in {"pushState", "replaceState"}
         THEN [microLocation EXCEPT
                 ![appName] = updateLocation(Tail(From(calls[1].arg, {"="})),
                                             url(appName), @)]
         ELSE microLocation
  /\ UNCHANGED attach2Hash

\* One operation of the app's location object: the calls it makes reach the
\* raw window, in order.
Perform(op, appName, value, calls) ==
  /\ ApplyCalls(history, calls).length <= MaxHistory
  /\ effects' = calls
  /\ history' = ApplyCalls(history, calls)
  /\ lastOp' = [op |-> op, app |-> appName, value |-> value]
  /\ UNCHANGED <<microLocation, attach2Hash>>

Assign(appName, value) == Perform("assign", appName, value, assign(appName, value))

Replace(appName, value) == Perform("replace", appName, value, replace(appName, value))

Reload(appName, forcedReload) == Perform("reload", appName, forcedReload, reload(forcedReload))

SetHref(appName, value) == Perform("href", appName, value, hrefSetter(appName, value))

SetPathname(appName, value) == Perform("pathname", appName, value, pathnameSetter(appName, value))

SetSearch(appName, value) == Perform("search", appName, value, searchSetter(appName, value))

SetHash(appName, value) == Perform("hash", appName, value, hashSetter(appName, value))

\* A read of href, pathname, search or hash: the getter returns the shadow
\* field and calls nothing.
Get(appName, key) == Perform("get", appName, <<key>>, <<>>)

\* Variant of UpdateLocation: the apps share one shadowLocation object.
UpdateLocation_shared(appName, path) ==
  /\ microLocation' = [a \in Apps |-> updateLocation(path, url(a), microLocation[a])]
  /\ effects' = <<>>
  /\ lastOp' = [op |-> "updateLocation", app |-> appName, value |-> path]
  /\ UNCHANGED <<history, attach2Hash>>

UpdateLocation(appName, path) ==
  /\ microLocation' = [microLocation EXCEPT
                         ![appName] = updateLocation(path, url(appName), @)]
  /\ effects' = <<>>
  /\ lastOp' = [op |-> "updateLocation", app |-> appName, value |-> path]
  /\ UNCHANGED <<history, attach2Hash>>

Init ==
  /\ microLocation = [a \in Apps |-> createMicroLocation(a)]
  /\ history = [length |-> 1, current |-> <<"/">>]
  /\ attach2Hash \in BOOLEAN
  /\ lastOp = [op |-> "createMicroLocation", app |-> "app1", value |-> url("app1")]
  /\ effects = <<>>

Next ==
  \/ \E value \in NavValues : Assign("app1", value)
  \/ \E value \in NavValues : Replace("app1", value)
  \/ \E forcedReload \in ForcedReloadValues : Reload("app1", forcedReload)
  \/ \E value \in NavValues : SetHref("app1", value)
  \/ \E value \in PathnameValues : SetPathname("app1", value)
  \/ \E value \in SearchValues : SetSearch("app1", value)
  \/ \E value \in HashValues : SetHash("app1", value)
  \/ \E path \in UpdatePaths : UpdateLocation("app1", path)
  \/ \E key \in ShadowKeys : Get("app1", key)

Spec == Init /\ [][Next]_vars

\* Two apps mounted on the one window: whole operations of either app, in
\* any order, over a few values each.
TwoNavValues == { <<>>, <<"#", "a">>, <<"/", "z">> }
TwoPathnameValues == { <<"z">> }
TwoSearchValues == { <<"q">> }
TwoHashValues == { <<>>, <<"a">> }
TwoUpdatePaths == { <<"/", "z">>, <<"/", "z", "#", "a">> }

NextTwo ==
  \E appName \in Apps :
    \/ \E value \in TwoNavValues : Assign(appName, value)
    \/ \E value \in TwoNavValues : Replace(appName, value)
    \/ Reload(appName, <<>>)
    \/ \E value \in TwoNavValues : SetHref(appName, value)
    \/ \E value \in TwoPathnameValues : SetPathname(appName, value)
    \/ \E value \in TwoSearchValues : SetSearch(appName, value)
    \/ \E value \in TwoHashValues : SetHash(appName, value)
    \/ \E path \in TwoUpdatePaths : UpdateLocation(appName, path)

SpecTwo == Init /\ [][NextTwo]_vars

\* ------------------------------------------------------------------ claims

\* The operation that ran last, its app's shadow (no operation but
\* updateLocation changes it) and the address its value resolves to.
OpApp == lastOp.app
Shadow == shadowLocation(OpApp)
Target == createURL(lastOp.value, url(OpApp))
FullPath == setMicroPathToURL(OpApp, Target).fullPath

IsNav == lastOp.op \in {"assign", "replace", "href"}
RequestedMode == IF lastOp.op = "replace" THEN "replaceState" ELSE "pushState"
TargetSameOrigin == Target.origin = microLocation[OpApp].origin
TargetSameAddress == Target.pathname = Shadow.pathname /\ Target.search = Shadow.search

\* How many calls of a kind the last operation made, and where.
Places(kinds) == {i \in DOMAIN effects : effects[i].kind \in kinds}
Occurs(kinds) == Cardinality(Places(kinds))
HistoryKinds == {"pushState", "replaceState"}
NavigationKinds == {"assign", "replace", "href"}
Notify == {"dispatchPurePopStateEvent"}
Before(kinds1, kinds2) == \A i \in Places(kinds1), j \in Places(kinds2) : i < j

\* C1: assign, replace or an href write to an address of the app's origin with
\* the shadow's pathname and search and a non-empty hash other than the
\* shadow's writes history exactly once (replaceState for replace, pushState
\* for assign and href) with the codec's fullPath, notifies exactly once,
\* never reloads and makes no real navigation.
C1_HashChangeCase ==
  /\ IsNav /\ TargetSameOrigin /\ TargetSameAddress
  /\ Target.hash # <<>> /\ Target.hash # Shadow.hash

C1_HashChangeIsSilent ==
  C1_HashChangeCase =>
    /\ Occurs(HistoryKinds) = 1
    /\ \E i \in DOMAIN effects : effects[i] = Call(RequestedMode, FullPath)
    /\ Occurs({"reload"}) = 0
    /\ Occurs(Notify) = 1
    /\ Occurs(NavigationKinds) = 0

C1_Witness ==
  /\ C1_HashChangeCase /\ lastOp.op = "replace" /\ Occurs({"replaceState"}) = 1

\* C2: assign, replace or an href write to an address of the app's origin with
\* the shadow's pathname and search and an empty hash, while the shadow hash is
\* not empty, writes history exactly once, then reloads exactly once, and
\* does not notify.
C2_HashClearedCase ==
  /\ IsNav /\ TargetSameOrigin /\ TargetSameAddress
  /\ Target.hash = <<>> /\ Shadow.hash # <<>>

C3_CrossOriginCase == IsNav /\ ~TargetSameOrigin

C3_CrossOriginPassesThrough ==
  C3_CrossOriginCase =>
    /\ commonHandle(OpApp, lastOp.value, RequestedMode) =
         [calls |-> <<>>, ret |-> Value(lastOp.value)]
    /\ effects = <<Call(lastOp.op, lastOp.value)>>

C3_Witness ==
  /\ C3_CrossOriginCase /\ lastOp.op = "assign" /\ Occurs({"assign"}) = 1

\* The address each setter builds from the written value and the shadow.
PathnameTarget ==
  createURL(ReplaceLeading(<<"/">> \o lastOp.value, "/") \o Shadow.search \o Shadow.hash,
            url(OpApp))
SearchTarget ==
  createURL(Shadow.pathname \o ReplaceLeading(<<"?">> \o lastOp.value, "?") \o Shadow.hash,
            url(OpApp))
HashTarget ==
  createURL(Shadow.pathname \o Shadow.search \o ReplaceLeading(<<"#">> \o lastOp.value, "#"),
            url(OpApp))

\* The codec's fullPath for the app of the last operation and these components.
Encoded(pathname, search, hash) ==
  setMicroPathToURL(OpApp, [pathname |-> pathname, search |-> search, hash |-> hash]).fullPath

Reloaded == Call("reload", <<>>)

\* C4: a hash write never reloads; when the normalized, resolved hash is not
\* the shadow hash it makes exactly one pushState, encoding the shadow's
\* pathname and search with the new hash, and then one notification; when it
\* is the shadow hash it makes no call at all.
C4_HashWriteNeverReloads ==
  lastOp.op = "hash" =>
    /\ Occurs({"reload"}) = 0
    /\ Occurs({"replaceState"}) = 0
    /\ IF HashTarget.hash # Shadow.hash
         THEN effects = << Call("pushState",
                                Encoded(Shadow.pathname, Shadow.search, HashTarget.hash)),
                           dispatchPurePopStateEvent >>
         ELSE effects = <<>>

\* An empty hash written over a non-empty shadow hash.
C4_Witness ==
  /\ lastOp.op = "hash" /\ HashTarget.hash = <<>> /\ Shadow.hash # <<>>
  /\ Occurs({"pushState"}) = 1

\* C5: a pathname write whose normalized, resolved pathname is the shadow
\* pathname, while the shadow hash is not empty, notifies exactly once and
\* makes no other call; so does a search write whose resolved search is the
\* shadow search.
C5_PathnameCase ==
  lastOp.op = "pathname" /\ PathnameTarget.pathname = Shadow.pathname /\ Shadow.hash # <<>>
C5_SearchCase ==
  lastOp.op = "search" /\ SearchTarget.search = Shadow.search /\ Shadow.hash # <<>>

C5_SameFieldOnlyNotifies ==
  (C5_PathnameCase \/ C5_SearchCase) => effects = <<dispatchPurePopStateEvent>>

\* The pathname written again, with a hash of its own in the value.
C5_Witness ==
  /\ C5_PathnameCase /\ PathnameTarget.hash # Shadow.hash
  /\ Occurs(Notify) = 1

\* C6 (as claimed): a pathname or search write outside the case of C5 makes
\* exactly one history call, encoding the new field with the shadow's other
\* two components, replaceState if and only if the field is unchanged, then
\* one reload, and no notification, whatever attach2Hash is.
C6_PathnameCase == lastOp.op = "pathname" /\ ~C5_PathnameCase
C6_SearchCase == lastOp.op = "search" /\ ~C5_SearchCase
ModeFor(unchanged) == IF unchanged THEN "replaceState" ELSE "pushState"

C6_Claimed ==
  /\ C6_PathnameCase =>
       effects = << Call(ModeFor(PathnameTarget.pathname = Shadow.pathname),
                         Encoded(PathnameTarget.pathname, Shadow.search, Shadow.hash)),
                    Reloaded >>
  /\ C6_SearchCase =>
       effects = << Call(ModeFor(SearchTarget.search = Shadow.search),
                         Encoded(Shadow.pathname, SearchTarget.search, Shadow.hash)),
                    Reloaded >>

\* C6 (amended): the one history call encodes the address that the
\* normalized value, joined with the shadow's other two components, resolves
\* to; these are the new field and the shadow's other two components when the
\* written value holds no "?" or "#" (pathname) or no "#" (search).
Holds(value, D) == \E i \in DOMAIN value : value[i] \in D

C6_WriteCommitsResolvedTarget ==
  /\ C6_PathnameCase =>
       /\ effects = << Call(ModeFor(PathnameTarget.pathname = Shadow.pathname),
                            Encoded(PathnameTarget.pathname, PathnameTarget.search,
                                    PathnameTarget.hash)),
                       Reloaded >>
       /\ ~Holds(lastOp.value, {"?", "#"}) =>
            PathnameTarget.search = Shadow.search /\ PathnameTarget.hash = Shadow.hash
  /\ C6_SearchCase =>
       /\ effects = << Call(ModeFor(SearchTarget.search = Shadow.search),
                            Encoded(SearchTarget.pathname, SearchTarget.search,
                                    SearchTarget.hash)),
                       Reloaded >>
       /\ ~Holds(lastOp.value, {"#"}) =>
            SearchTarget.pathname = Shadow.pathname /\ SearchTarget.hash = Shadow.hash

\* The search written again over an empty shadow hash: replaceState, reload.
C6_Witness ==
  /\ C6_SearchCase /\ SearchTarget.search = Shadow.search /\ attach2Hash
  /\ Occurs({"replaceState"}) = 1 /\ Occurs({"reload"}) = 1

\* C7: assign, replace or an href write to an address of the app's origin
\* with another pathname or search, when the codec reports attach2Hash:
\* fullPath is written once by the requested method, then the page is
\* reloaded once; nothing is notified, commonHandle returns undefined and no
\* real navigation is made.
C7_Attach2HashCase ==
  IsNav /\ TargetSameOrigin /\ ~TargetSameAddress /\ attach2Hash

C7_Attach2HashCommitsAndReloads ==
  C7_Attach2HashCase =>
    /\ effects = << Call(RequestedMode, FullPath), Reloaded >>
    /\ commonHandle(OpApp, lastOp.value, RequestedMode).ret = Undefined

C7_Witness ==
  /\ C7_Attach2HashCase /\ lastOp.op = "replace" /\ Occurs({"replaceState"}) = 1

\* C8: the same, when the codec reports no attach2Hash: commonHandle makes
\* no call and returns fullPath, and the caller makes the one real navigation
\* of its kind with fullPath.  And whenever commonHandle returns undefined,
\* no real navigation is made.
C8_DeferCase ==
  IsNav /\ TargetSameOrigin /\ ~TargetSameAddress /\ ~attach2Hash

C8_DeferredToRealNavigation ==
  /\ C8_DeferCase =>
       /\ commonHandle(OpApp, lastOp.value, RequestedMode) =
            [calls |-> <<>>, ret |-> Value(FullPath)]
       /\ effects = <<Call(lastOp.op, FullPath)>>
  /\ (IsNav /\ commonHandle(OpApp, lastOp.value, RequestedMode).ret = Undefined) =>
       Occurs(NavigationKinds) = 0

C8_Witness ==
  /\ C8_DeferCase /\ lastOp.op = "href" /\ Occurs({"href"}) = 1

\* C9: updateLocation(path, base, microLocation) stores the href, pathname,
\* search and hash of createURL(path, base) in shadowLocation, whatever it
\* held, and its host, hostname, port, protocol and password on the object;
\* it makes no call on the raw window and leaves history as it is; the four
\* getters then return what was stored.
C9_UpdateStoresResolved ==
  [][ \A app \in Apps : (lastOp'.op = "updateLocation" /\ lastOp'.app = app) =>
        LET newLocation == createURL(lastOp'.value, url(app))
        IN  /\ microLocation'[app].shadowLocation =
                 [ href |-> newLocation.href, pathname |-> newLocation.pathname,
                   search |-> newLocation.search, hash |-> newLocation.hash ]
            /\ microLocation'[app].host = newLocation.host
            /\ microLocation'[app].hostname = newLocation.hostname
            /\ microLocation'[app].port = newLocation.port
            /\ microLocation'[app].protocol = newLocation.protocol
            /\ microLocation'[app].password = newLocation.password
            /\ effects' = <<>>
            /\ history' = history
            /\ hrefGetter(app)' = newLocation.href
            /\ pathnameGetter(app)' = newLocation.pathname
            /\ searchGetter(app)' = newLocation.search
            /\ hashGetter(app)' = newLocation.hash ]_vars

\* An update that clears a hash the shadow held.
C9_Witness ==
  /\ lastOp.op = "updateLocation" /\ lastOp.value = <<"/", "x", "?", "q">>
  /\ hashGetter(OpApp) = <<>> /\ searchGetter(OpApp) = <<"?", "q">>
  /\ history.length > 1

\* C10: a pathname, search or hash write of a value with any number of
\* leading "/", "?" or "#" makes the calls, with the arguments, that the
\* write of the value with exactly one makes; "a", "#a" and "##a" written to
\* hash all commit the hash "#a".
OneLeading(value, c) == <<c>> \o SubSeq(value, FirstNot(value, c), Len(value))

C10_LeadingPunctuationCollapses ==
  /\ lastOp.op = "pathname" => effects = pathnameSetter(OpApp, OneLeading(lastOp.value, "/"))
  /\ lastOp.op = "search" => effects = searchSetter(OpApp, OneLeading(lastOp.value, "?"))
  /\ lastOp.op = "hash" => effects = hashSetter(OpApp, OneLeading(lastOp.value, "#"))
  /\ ( /\ lastOp.op = "hash"
       /\ lastOp.value \in { <<"a">>, <<"#", "a">>, <<"#", "#", "a">> }
       /\ Shadow.hash # <<"#", "a">> )
     => effects[1] = Call("pushState", Encoded(Shadow.pathname, Shadow.search, <<"#", "a">>))

C10_Witness ==
  /\ lastOp.op = "hash" /\ lastOp.value = <<"#", "#", "a">>
  /\ Shadow.hash # <<"#", "a">> /\ Occurs({"pushState"}) = 1

\* The write operations, and the address the last one was aimed at.
IsWrite == lastOp.op \in {"assign", "replace", "href", "pathname", "search", "hash"}
OpTarget ==
  IF lastOp.op = "pathname" THEN PathnameTarget
  ELSE IF lastOp.op = "search" THEN SearchTarget
  ELSE IF lastOp.op = "hash" THEN HashTarget
  ELSE Target
TargetDiffers ==
  \/ OpTarget.pathname # Shadow.pathname
  \/ OpTarget.search # Shadow.search
  \/ OpTarget.hash # Shadow.hash
SideEffects == {"reload"} \cup Notify

\* The entry encoding the target was written before any reload or notification.
CommittedFirst ==
  /\ history.current = Encoded(OpTarget.pathname, OpTarget.search, OpTarget.hash)
  /\ \E i \in Places(HistoryKinds) :
       /\ effects[i].arg = Encoded(OpTarget.pathname, OpTarget.search, OpTarget.hash)
       /\ \A j \in Places(SideEffects) : i < j

\* C11: in every operation the history call comes before the reload or
\* notification; and whenever a write reloads or notifies for a target that
\* differs from the shadow, history already holds the entry encoding that
\* target.
C11_CommitBeforeSideEffect ==
  /\ Before(HistoryKinds, SideEffects)
  /\ (IsWrite /\ Occurs(SideEffects) > 0 /\ TargetDiffers) => CommittedFirst

\* Where C11 fails: a pathname or search write whose resolved field is the
\* shadow's while the shadow hash is not empty only notifies and writes
\* nothing, also when a "?" or "#" in the written value makes the rest of the
\* target differ.  Everywhere else it holds.
C11_OutsideNotifyOnlyWrites ==
  /\ Before(HistoryKinds, SideEffects)
  /\ (IsWrite /\ Occurs(SideEffects) > 0 /\ TargetDiffers
        /\ ~C5_PathnameCase /\ ~C5_SearchCase) => CommittedFirst
  /\ ((C5_PathnameCase \/ C5_SearchCase) /\ TargetDiffers) =>
       (Occurs(HistoryKinds) = 0 /\ Holds(lastOp.value, {"?", "#"}))

\* What commonHandle did in the assign, replace or href write that ran last.
EngineResult == commonHandle(OpApp, lastOp.value, RequestedMode)
FullyCommits(r) ==
  /\ r.ret = Undefined
  /\ Len(r.calls) = 2
  /\ r.calls[1].kind \in HistoryKinds
  /\ r.calls[2].kind \in SideEffects
FullyDefers(r) == r.ret.defined /\ r.calls = <<>>
OnlySideEffect(r) ==
  /\ r.ret = Undefined
  /\ Len(r.calls) = 1
  /\ r.calls[1].kind \in SideEffects
EngineRan ==
  IsNav /\ effects = EngineResult.calls \o
                       (IF Truthy(EngineResult.ret)
                          THEN <<Call(lastOp.op, EngineResult.ret.value)>> ELSE <<>>)

\* C12 (as claimed): every call of commonHandle either fully commits (a
\* history write, then a reload or a notification, undefined returned) or
\* fully defers (a value returned, no call made); none reloads or notifies
\* without a history write before.
C12_Claimed ==
  IsNav => /\ EngineRan
           /\ FullyCommits(EngineResult) \/ FullyDefers(EngineResult)

\* C12 (amended): there is a third outcome.  When the target is of the app's
\* origin and its pathname, search and hash are all the shadow's, commonHandle
\* writes no history, only notifies (hash not empty) or reloads (hash empty),
\* and returns undefined.  Every call ends in exactly one of the three, and
\* this is the only case of a reload or notification with no history write.
C12_SameAddressCase == IsNav /\ TargetSameOrigin /\ ~TargetDiffers

C12_CommitDeferOrSideEffectOnly ==
  IsNav =>
    /\ EngineRan
    /\ IF C12_SameAddressCase
         THEN OnlySideEffect(EngineResult)
         ELSE FullyCommits(EngineResult) \/ FullyDefers(EngineResult)
    /\ ~(FullyCommits(EngineResult) /\ FullyDefers(EngineResult))

C12_Witness ==
  /\ C12_SameAddressCase /\ lastOp.op = "assign" /\ Shadow.hash # <<>>
  /\ effects = <<dispatchPurePopStateEvent>>

\* C13: assign, replace or an href write to an address of the app's origin
\* whose pathname, search and hash are all the shadow's writes no history
\* entry: with a hash it only notifies, once, and does not reload; without
\* one it only reloads, once, and does not notify.
C13_SameAddressWritesNoEntry ==
  C12_SameAddressCase =>
    /\ Occurs(HistoryKinds) = 0
    /\ Occurs(NavigationKinds) = 0
    /\ IF Shadow.hash # <<>>
         THEN Occurs(Notify) = 1 /\ Occurs({"reload"}) = 0
         ELSE Occurs({"reload"}) = 1 /\ Occurs(Notify) = 0

C13_Witness ==
  /\ C12_SameAddressCase /\ lastOp.op = "replace" /\ Shadow.hash = <<>>
  /\ effects = <<Reloaded>>

\* assign, replace, an href write or a hash write whose target has the
\* shadow's pathname and search, and another hash.
C14_HashOnlyCase ==
  /\ lastOp.op \in {"assign", "replace", "href", "hash"}
  /\ IsNav => TargetSameOrigin
  /\ OpTarget.pathname = Shadow.pathname /\ OpTarget.search = Shadow.search
  /\ OpTarget.hash # Shadow.hash

ConsistentShadow(shadow) ==
  LET u == createURL(shadow.href, shadow.href)
  IN  /\ u.href = shadow.href
      /\ u.pathname = shadow.pathname
      /\ u.search = shadow.search
      /\ u.hash = shadow.hash

C15_ShadowFieldsAreOneURL ==
  \A a \in Apps : ConsistentShadow(shadowLocation(a))

\* After an update to an address with a search and a hash, and a write.
C15_Witness ==
  /\ lastOp.op = "pathname" /\ Occurs({"pushState"}) = 1
  /\ Shadow.search = <<"?", "q">> /\ Shadow.hash = <<"#", "a">>
  /\ ConsistentShadow(Shadow)

\* C16: the shadow fields of an app change only in updateLocation or in an
\* assign, replace or href write of that app that wrote history; reads,
\* reload, and an assign, replace or href write that hands its value or
\* fullPath to the real navigation leave them as they are.
C16_ShadowChangesOnlyInUpdate ==
  [][ \A a \in Apps :
        /\ shadowLocation(a)' # shadowLocation(a) =>
             /\ lastOp'.app = a
             /\ \/ lastOp'.op = "updateLocation"
                \/ /\ lastOp'.op \in {"assign", "replace", "href"}
                   /\ \E i \in DOMAIN effects' : effects'[i].kind \in HistoryKinds
        /\ lastOp'.op \in {"get", "reload"} => shadowLocation(a)' = shadowLocation(a)
        /\ ( /\ lastOp'.op \in {"assign", "replace", "href"}
             /\ \E i \in DOMAIN effects' : effects'[i].kind \in NavigationKinds )
           => shadowLocation(a)' = shadowLocation(a) ]_vars

\* A deferred navigation from a shadow that an update had changed.
C16_Witness ==
  /\ lastOp.op = "href" /\ effects = <<Call("href", FullPath)>>
  /\ TargetSameOrigin /\ Shadow.pathname = <<"/", "z">>

\* The app names that occur in an address of the host page.
NamesIn(arg) == {arg[i] : i \in DOMAIN arg} \cap Apps

\* C17: with two apps, an operation or an updateLocation of one app leaves
\* the other app's shadow href, pathname, search and hash as they were, and
\* every history entry an app writes is encoded under that app's name only.
C17_AppsShareOnlyHistory ==
  [][ /\ \A a \in Apps :
           lastOp'.app # a => shadowLocation(a)' = shadowLocation(a)
      /\ \A i \in DOMAIN effects' :
           effects'[i].kind \in HistoryKinds =>
             NamesIn(effects'[i].arg) = {lastOp'.app} ]_vars

\* app2 writes an entry after app1 wrote one and was updated; app2's shadow
\* is still the one it was created with.
C17_Witness ==
  /\ lastOp.app = "app2" /\ Occurs({"pushState"}) = 1
  /\ NamesIn(effects[1].arg) = {"app2"}
  /\ history.length = 3
  /\ shadowLocation("app1").hash = <<"#", "a">>
  /\ shadowLocation("app2") = createMicroLocation("app2").shadowLocation

\* The path of an address inside the app: what updateLocation is called with
\* once the entry encoding that address is the current one.
MicroPath(u) == u.pathname \o u.search \o u.hash

\* C18: when a hash write that committed its target (its resolved hash
\* differs from the shadow's) is followed by updateLocation with that
\* target, the hash getter returns the target's hash, which is "#" and the
\* written value less its leading "#"s unless that leaves nothing; the
\* pathname and search getters return what they did; and writing the same
\* value to hash again calls nothing.
C18_HashWriteThenUpdateSettles ==
  [][ \A value \in HashValues :
        ( /\ lastOp.op = "hash" /\ lastOp.value = value
          /\ HashTarget.hash # Shadow.hash
          /\ lastOp'.op = "updateLocation" /\ lastOp'.app = lastOp.app
          /\ lastOp'.value = MicroPath(HashTarget) )
        => /\ hashGetter("app1")' = HashTarget.hash
           /\ OneLeading(value, "#") # <<"#">>
                => hashGetter("app1")' = OneLeading(value, "#")
           /\ pathnameGetter("app1")' = pathnameGetter("app1")
           /\ searchGetter("app1")' = searchGetter("app1")
           /\ hashSetter("app1", value)' = <<>> ]_vars

\* The end of that sequence: the entry for /x#a is the current one, the
\* shadow has been updated to it, and hash = "a" is written once more.
C18_Witness ==
  /\ lastOp.op = "hash" /\ lastOp.value = <<"a">> /\ effects = <<>>
  /\ history.length = 2
  /\ history.current = Encoded(<<"/", "x">>, <<>>, <<"#", "a">>)
  /\ MicroPath(Shadow) = <<"/", "x", "#", "a">>

\* C19: assign, replace, reload and the four setters leave every getter
\* returning what it returned before; so when a hash write whose resolved
\* hash differs from the shadow's is followed at once by the same hash
\* write, each of the two calls pushState with the same entry and then
\* notifies, and history is two entries longer than before the first.
C19_WritesLeaveShadowSoHashWriteRepeats ==
  [][ /\ lastOp'.op \in {"assign", "replace", "reload", "href", "pathname", "search", "hash"}
         => \A a \in Apps :
              /\ hrefGetter(a)' = hrefGetter(a)
              /\ pathnameGetter(a)' = pathnameGetter(a)
              /\ searchGetter(a)' = searchGetter(a)
              /\ hashGetter(a)' = hashGetter(a)
      /\ ( /\ lastOp.op = "hash" /\ HashTarget.hash # Shadow.hash
           /\ lastOp'.op = "hash" /\ lastOp'.app = lastOp.app
           /\ lastOp'.value = lastOp.value )
         => /\ effects = << Call("pushState", Encoded(Shadow.pathname, Shadow.search,
                                                       HashTarget.hash)),
                            dispatchPurePopStateEvent >>
            /\ effects' = effects
            /\ history'.length = (history.length - 1) + 2 ]_vars

\* hash = "a" written twice running on the shadow the app was created with.
C19_Witness ==
  /\ lastOp.op = "hash" /\ lastOp.value = <<"a">>
  /\ effects = << Call("pushState", Encoded(<<"/", "x">>, <<>>, <<"#", "a">>)),
                  dispatchPurePopStateEvent >>
  /\ history.length = 3
  /\ Shadow = createMicroLocation("app1").shadowLocation

\* C20: a write (assign, replace, or a write of href, pathname, search or
\* hash) makes at most one history call and at most one call among reload,
\* notification and real navigation, so never a reload and a notification
\* together; and a reload is the last call of its operation.
C20_OneCommitOneSideEffect ==
  IsWrite =>
    /\ Occurs(HistoryKinds) <= 1
    /\ Occurs({"reload"} \cup Notify \cup NavigationKinds) <= 1
    /\ ~(Occurs({"reload"}) > 0 /\ Occurs(Notify) > 0)
    /\ \A i \in Places({"reload"}) : i = Len(effects)

\* An assign through the host's hash: one history call, then the reload.
C20_Witness ==
  /\ lastOp.op = "assign" /\ attach2Hash
  /\ effects = << Call("pushState", FullPath), Reloaded >>
  /\ ~TargetSameAddress

====
